---- MODULE Spec2Model ----
(***************************************************************************)
(* FinTech Mini Suite (src/app.py): the Streamlit page's widget state, its *)
(* button handlers and the numeric helpers they call.                      *)
(*                                                                         *)
(* Numbers are exact rationals [k |-> "num", n, d] (d > 0, lowest terms);  *)
(* NaN is [k |-> "nan"]; a Python exception is [k |-> "raise"].            *)
(* Every widget interaction reruns the script, so the output of a button   *)
(* block exists only in the run that follows the click: an edit of a       *)
(* widget clears it.  Each tab has its own specification.                  *)
(***************************************************************************)
EXTENDS Integers, Sequences, FiniteSets, TLC

VARIABLES
    etf_rows,     \* ETF Allocator: the data editor's rows [Ticker, TargetWeight]
    budget,       \* ETF Allocator: the budget number_input
    alloc_out,    \* ETF Allocator: what the Allocate block rendered
    market_hist,  \* the provider's daily closes for the ticker (cached, ttl 3600)
    fast,         \* Backtest: Fast SMA number_input
    slow,         \* Backtest: Slow SMA number_input
    level,        \* Risk: confidence level slider, in percent
    hist_out,     \* what the Run Backtest / Compute VaR block rendered
    sample,       \* Portfolio: "Use sample portfolio" toggle
    uploaded,     \* Portfolio: the uploaded CSV's rows (<<>> when none)
    has_upload,   \* Portfolio: whether a CSV is uploaded
    pf_out,       \* Portfolio: what the tab rendered in this run
    series,       \* helper functions: the series they are applied to
    stat_out      \* helper functions: the function applied and its result

vars == <<etf_rows, budget, alloc_out, market_hist, fast, slow, level, hist_out,
          sample, uploaded, has_upload, pf_out, series, stat_out>>

allocVars == <<etf_rows, budget, alloc_out>>
histVars == <<market_hist, fast, slow, level, hist_out>>
pfVars == <<sample, uploaded, has_upload, pf_out>>
statVars == <<series, stat_out>>

----------------------------------------------------------------------------
(* Exact arithmetic.                                                       *)

Abs(x) == IF x < 0 THEN -x ELSE x

RECURSIVE GCD(_, _)
GCD(a, b) == IF b = 0 THEN a ELSE GCD(b, a % b)

LCM(a, b) == (a \div GCD(a, b)) * b

\* The rational n/d (d > 0) in lowest terms.
Frac(n, d) == LET g == GCD(Abs(n), d) IN [k |-> "num", n |-> n \div g, d |-> d \div g]

NaN == [k |-> "nan", n |-> 0, d |-> 1]
Raise == [k |-> "raise", n |-> 0, d |-> 1]
Zero == Frac(0, 1)
Unit == Frac(1, 1)

IsNum(x) == x.k = "num"
IsNaN(x) == x.k = "nan"

FAdd(a, b) == LET l == LCM(a.d, b.d) IN Frac(a.n * (l \div a.d) + b.n * (l \div b.d), l)
FSub(a, b) == LET l == LCM(a.d, b.d) IN Frac(a.n * (l \div a.d) - b.n * (l \div b.d), l)
\* Cross-cancelled product.
FMul(a, b) ==
    LET g1 == GCD(Abs(a.n), b.d)
        g2 == GCD(Abs(b.n), a.d)
    IN  Frac((a.n \div g1) * (b.n \div g2), (a.d \div g2) * (b.d \div g1))
FLt(a, b) == LET l == LCM(a.d, b.d) IN a.n * (l \div a.d) < b.n * (l \div b.d)
FLe(a, b) == ~FLt(b, a)

RECURSIVE SumSeq(_)
SumSeq(s) == IF s = <<>> THEN 0 ELSE Head(s) + SumSeq(Tail(s))

----------------------------------------------------------------------------
(* Tab 4: ETF Allocator (src/app.py 236-272).                              *)

\* Weights are held in units of 1e-7: One is the 1.0 and Tol the 1e-6 of line 257.
One == 10000000
Tol == 10

\* A missing price: the ticker has no row in fetch_last_price's frame, so the
\* left merge of line 264 leaves NaN in its Price.
NoPrice == 0

MaxRows == 3

Tickers == {"VTI", "VXUS", "BND"}
\* 4e-7, 0.1, 0.3, 0.6 and 1 - 1.2e-6
Weights == {4, 1000000, 3000000, 6000000, One - 12}
Budgets == {0, 10000}
PriceChoices == {55, 75, 200}
\* What the provider can answer: a last close per ticker, or nothing.
Markets == [Tickers -> PriceChoices \cup {NoPrice}]

default_etfs ==
    << [Ticker |-> "VTI", TargetWeight |-> 6000000],
       [Ticker |-> "VXUS", TargetWeight |-> 3000000],
       [Ticker |-> "BND", TargetWeight |-> 1000000] >>

AllocIdle == [status |-> "idle", looked_up |-> FALSE, prices |-> <<>>,
              plan |-> <<>>, cash_left |-> <<>>]

\* fetch_last_price: one row per requested ticker whose 1d history is not empty.
fetch_last_price(tickers, market) ==
    IF tickers = <<>> THEN <<>>
    ELSE LET got == {t \in {tickers[i] : i \in 1..Len(tickers)} : market[t] # NoPrice}
         IN  [t \in got |-> market[t]]

\* What the call of line 260 can return.  st.cache_data (ttl 3600) keys the call on
\* the ticker list: a click that repeats the lookup of the run before it is answered
\* from the cache; any other one asks the provider.
Lookups(tickers) ==
    IF alloc_out.looked_up THEN {alloc_out.prices}
    ELSE {fetch_last_price(tickers, market) : market \in Markets}

\* WeightsInvalid without the abs(): a sum below 1.0 passes.
WeightsInvalidNoAbs(rows) ==
    SumSeq([i \in 1..Len(rows) |-> rows[i].TargetWeight]) - One > Tol

\* line 257: abs(etf_rows["TargetWeight"].sum() - 1.0) > 1e-6
WeightsInvalid(rows) ==
    Abs(SumSeq([i \in 1..Len(rows) |-> rows[i].TargetWeight]) - One) > Tol

\* line 264: etf_rows.merge(prices, on="Ticker", how="left")
Merge(rows, prices) ==
    [i \in 1..Len(rows) |->
        [Ticker |-> rows[i].Ticker,
         TargetWeight |-> rows[i].TargetWeight,
         Price |-> IF rows[i].Ticker \in DOMAIN prices THEN prices[rows[i].Ticker]
                   ELSE NoPrice]]

\* line 265: plan["TargetWeight"] * budget
TargetAmt(weight, b) == FMul(Frac(weight, One), Frac(b, 1))

\* Shares with np.ceil in place of np.floor.
SharesCeil(target, price) == -((-target.n) \div (target.d * price))

\* line 266: np.floor(TargetAmt / Price) of one row with a price
Shares(target, price) == target.n \div (target.d * price)

\* CashLeft with the Shares column summed in place of InvestAmt.
CashLeftShares(b, plan) == b - SumSeq([i \in 1..Len(plan) |-> plan[i].Shares])

\* line 268: budget - plan["InvestAmt"].sum()
CashLeft(b, plan) == b - SumSeq([i \in 1..Len(plan) |-> plan[i].InvestAmt])

\* lines 264-268; .astype(int) raises on the NaN of a row without a price.
AllocateBody(rows, b, prices) ==
    LET merged == Merge(rows, prices)
        missing == \E i \in 1..Len(merged) : merged[i].Price = NoPrice
        plan == [i \in 1..Len(merged) |->
                   LET t == TargetAmt(merged[i].TargetWeight, b)
                       s == Shares(t, merged[i].Price)
                   IN  [Ticker |-> merged[i].Ticker,
                        Price |-> merged[i].Price,
                        TargetWeight |-> merged[i].TargetWeight,
                        TargetAmt |-> t,
                        Shares |-> s,
                        InvestAmt |-> s * merged[i].Price]]
    IN  IF missing
        THEN [status |-> "raised", looked_up |-> TRUE, prices |-> prices,
              plan |-> <<>>, cash_left |-> <<>>]
        ELSE [status |-> "plan", looked_up |-> TRUE, prices |-> prices,
              plan |-> plan,
              cash_left |-> << CashLeft(b, plan) >>]

\* The Allocate button, lines 255-272.
Allocate ==
    /\ \/ /\ WeightsInvalid(etf_rows)
          /\ alloc_out' = [AllocIdle EXCEPT !.status = "warn_weights"]
       \/ /\ ~WeightsInvalid(etf_rows)
          /\ \E prices \in Lookups([i \in 1..Len(etf_rows) |-> etf_rows[i].Ticker]) :
               alloc_out' =
                   IF DOMAIN prices = {}
                   THEN [AllocIdle EXCEPT !.status = "warn_prices", !.looked_up = TRUE]
                   ELSE AllocateBody(etf_rows, budget, prices)
    /\ UNCHANGED <<etf_rows, budget, histVars, pfVars, statVars>>

\* The data editor (num_rows="dynamic") and the budget input: each edit reruns the
\* script with the button not pressed.
EditWeight ==
    \E i \in 1..Len(etf_rows), w \in Weights :
        /\ etf_rows' = [etf_rows EXCEPT ![i].TargetWeight = w]
        /\ alloc_out' = AllocIdle
        /\ UNCHANGED <<budget, histVars, pfVars, statVars>>

AddRow ==
    \E t \in Tickers, w \in Weights :
        /\ Len(etf_rows) < MaxRows
        /\ etf_rows' = Append(etf_rows, [Ticker |-> t, TargetWeight |-> w])
        /\ alloc_out' = AllocIdle
        /\ UNCHANGED <<budget, histVars, pfVars, statVars>>

DeleteRow ==
    \E i \in 1..Len(etf_rows) :
        /\ etf_rows' = [j \in 1..(Len(etf_rows) - 1) |->
                          IF j < i THEN etf_rows[j] ELSE etf_rows[j + 1]]
        /\ alloc_out' = AllocIdle
        /\ UNCHANGED <<budget, histVars, pfVars, statVars>>

SetBudget ==
    \E b \in Budgets :
        /\ budget' = b
        /\ alloc_out' = AllocIdle
        /\ UNCHANGED <<etf_rows, histVars, pfVars, statVars>>

----------------------------------------------------------------------------
(* Series operations (pandas) on sequences of numbers and NaN.             *)

\* The sequence s with each element evaluated once.
Series(s) == SubSeq(s, 1, Len(s))

RECURSIVE FSum(_)
FSum(s) == IF s = <<>> THEN Zero ELSE FAdd(Head(s), FSum(Tail(s)))

\* Series.dropna()
DropNa(s) == SelectSeq(s, LAMBDA x : ~IsNaN(x))

\* Series.fillna(v)
FillNa(s, v) == [i \in 1..Len(s) |-> IF IsNaN(s[i]) THEN v ELSE s[i]]

\* Shift without the lag: the signal acts on its own period.
ShiftNone(s, k) == s

\* Series.shift(k), k >= 0
Shift(s, k) == [i \in 1..Len(s) |-> IF i <= k THEN NaN ELSE s[i - k]]

\* Series.rolling(w).mean(): NaN until the window holds w observations
Rolling(s, w) ==
    [i \in 1..Len(s) |->
        IF i < w THEN NaN
        ELSE FMul(FSum(SubSeq(s, i - w + 1, i)), Frac(1, w))]

\* (a > b).astype(int): a comparison with NaN is False
GtInt(a, b) ==
    [i \in 1..Len(a) |->
        IF IsNum(a[i]) /\ IsNum(b[i]) /\ FLt(b[i], a[i]) THEN Unit ELSE Zero]

\* Series.ffill()
RECURSIVE FFill(_)
FFill(s) ==
    IF Len(s) <= 1 THEN s
    ELSE LET front == FFill(SubSeq(s, 1, Len(s) - 1))
             last == s[Len(s)]
         IN  Append(front, IF IsNaN(last) THEN front[Len(front)] ELSE last)

\* Series.pct_change(): pad says whether the build's pandas forward-fills first
\* (fill_method="pad", the default before pandas 3).
PctChange(s, pad) ==
    LET f == IF pad THEN FFill(s) ELSE Series(s)
    IN  [i \in 1..Len(f) |->
            IF i = 1 \/ IsNaN(f[i]) \/ IsNaN(f[i - 1]) THEN NaN
            ELSE FSub(FMul(f[i], Frac(f[i - 1].d, f[i - 1].n)), Unit)]

\* a * b, element by element
SeriesMul(a, b) ==
    [i \in 1..Len(a) |-> IF IsNaN(a[i]) \/ IsNaN(b[i]) THEN NaN ELSE FMul(a[i], b[i])]

\* (1 + r).cumprod()
RECURSIVE CumProd1(_)
CumProd1(r) ==
    IF r = <<>> THEN <<>>
    ELSE LET front == CumProd1(SubSeq(r, 1, Len(r) - 1))
             g == FAdd(Unit, r[Len(r)])
         IN  Append(front, IF front = <<>> THEN g ELSE FMul(front[Len(front)], g))

\* cummax that keeps only the first value as the peak.
CumMaxFirst(s) == [i \in 1..Len(s) |-> s[1]]

\* Series.cummax()
RECURSIVE CumMax(_)
CumMax(s) ==
    IF s = <<>> THEN <<>>
    ELSE LET front == CumMax(SubSeq(s, 1, Len(s) - 1))
             last == s[Len(s)]
         IN  Append(front, IF front # <<>> /\ FLt(last, front[Len(front)])
                           THEN front[Len(front)] ELSE last)

\* Series.min() of a non-empty series of numbers
RECURSIVE FMin(_)
FMin(s) ==
    IF Len(s) = 1 THEN s[1]
    ELSE LET m == FMin(Tail(s)) IN IF FLt(m, Head(s)) THEN m ELSE Head(s)

----------------------------------------------------------------------------
(* Finance utilities (src/app.py 54-87).                                   *)

periods_per_year == 252

\* max_drawdown, lines 54-59; the curve's values are positive
max_drawdown(curve) ==
    IF curve = <<>> THEN NaN
    ELSE LET cummax == CumMax(curve)
             drawdown == Series([i \in 1..Len(curve) |->
                            FSub(FMul(curve[i], Frac(cummax[i].d, cummax[i].n)), Unit)])
         IN  FMin(drawdown)

\* CAGR without the empty check of lines 63-64: iloc[-1] of an empty series raises.
CAGRNoEmptyCheck(equity_curve, ppy) ==
    IF equity_curve = <<>> THEN Raise
    ELSE LET last == equity_curve[Len(equity_curve)]
             first == equity_curve[1]
             growth == FMul(last, Frac(first.d, first.n))
         IN  [k |-> "cagr", n |-> growth.n, d |-> growth.d,
              periods |-> Len(equity_curve), ppy |-> ppy]

\* CAGR, lines 62-70.  The result (1 + total_return) ** (1 / yrs) - 1 is kept as
\* its base n/d and its exponent ppy/periods.
CAGR(equity_curve, ppy) ==
    IF equity_curve = <<>> THEN NaN
    ELSE LET last == equity_curve[Len(equity_curve)]
             first == equity_curve[1]
             total_return == FSub(FMul(last, Frac(first.d, first.n)), Unit)
             n_periods == Len(equity_curve)
             yrs == Frac(n_periods, ppy)
             growth == FAdd(Unit, total_return)
         IN  IF FLe(yrs, Zero) THEN NaN
             ELSE [k |-> "cagr", n |-> growth.n, d |-> growth.d,
                   periods |-> n_periods, ppy |-> ppy]

\* The variance with ddof=0.
PopulationVar(s) ==
    IF s = <<>> THEN NaN
    ELSE LET mean == FMul(FSum(s), Frac(1, Len(s)))
             sq == Series([i \in 1..Len(s) |->
                      LET dev == FSub(s[i], mean) IN FMul(dev, dev)])
         IN  FMul(FSum(sq), Frac(1, Len(s)))

\* Series.std(ddof=1) squared: NaN for fewer than two observations
SampleVar(s) ==
    IF Len(s) < 2 THEN NaN
    ELSE LET mean == FMul(FSum(s), Frac(1, Len(s)))
             sq == Series([i \in 1..Len(s) |->
                      LET dev == FSub(s[i], mean) IN FMul(dev, dev)])
         IN  FMul(FSum(sq), Frac(1, Len(s) - 1))

\* sharpe, lines 73-81.  The result mu / sigma is kept as mu and sigma squared.
sharpe(returns, risk_free, ppy) ==
    IF returns = <<>> THEN NaN
    ELSE LET excess == Series([i \in 1..Len(returns) |->
                          FSub(returns[i], FMul(risk_free, Frac(1, ppy)))])
             mu == FMul(FMul(FSum(excess), Frac(1, Len(excess))), Frac(ppy, 1))
             variance == SampleVar(excess)
         IN  IF IsNaN(variance) \/ variance = Zero THEN NaN
             ELSE [k |-> "ratio", n |-> 0, d |-> 1,
                   mu |-> mu, sigma2 |-> FMul(variance, Frac(ppy, 1))]

\* sorted(s), by insertion
RECURSIVE Sorted(_)
Sorted(s) ==
    IF Len(s) <= 1 THEN s
    ELSE LET rest == Sorted(Tail(s))
             below == SelectSeq(rest, LAMBDA x : FLt(x, Head(s)))
             above == SelectSeq(rest, LAMBDA x : ~FLt(x, Head(s)))
         IN  below \o <<Head(s)>> \o above

\* np.percentile(a, q), linear interpolation, q in percent (0..100), a not empty
Percentile(a, q) ==
    LET srt == Sorted(a)
        n == Len(srt)
        lo == (q * (n - 1)) \div 100
        part == Frac((q * (n - 1)) % 100, 100)
    IN  IF lo + 2 > n THEN srt[lo + 1]
        ELSE FAdd(srt[lo + 1], FMul(part, FSub(srt[lo + 2], srt[lo + 1])))

\* var_historical, lines 84-87; lvl is the confidence level in percent.  Both callers
\* pass a series without NaN; np.percentile of an empty array is taken to raise.
var_historical(returns, lvl) ==
    IF returns = <<>> THEN NaN
    ELSE IF DropNa(returns) = <<>> THEN Raise
    ELSE Percentile(DropNa(returns), 100 - lvl)

----------------------------------------------------------------------------
(* Tab 3: Backtest (SMA), lines 185-231, and Tab 5: Risk (VaR), 277-291.   *)

MaxLen == 6

\* number_input bounds of lines 189-190
FastMin == 2
SlowMin == 5

FastChoices == {FastMin, 3, 5, 20}
SlowChoices == {SlowMin, 50}
Closes == {Frac(1, 1), Frac(2, 1), NaN}
\* What fetch_history can return: the Close column, empty when there is no data.
Histories == UNION {[1..len -> Closes] : len \in 0..MaxLen}

HistIdle == [tab |-> "none", status |-> "idle", fetched |-> FALSE,
             px_close |-> <<>>, signal |-> <<>>, strat_rets |-> <<>>,
             strat_equity |-> <<>>, bh_equity |-> <<>>, metrics |-> <<>>,
             rets |-> <<>>, v |-> NaN]

\* The check of line 194 with > in place of >=.
FastSlowInvalidStrict(f, s) == f > s

\* line 194
FastSlowInvalid(f, s) == f >= s

\* lines 202-207: the moving averages, the lagged signal and the equity curves
BacktestSeries(px_close, f, s) ==
    LET sma_f == Series(Rolling(px_close, f))
        sma_s == Series(Rolling(px_close, s))
        crossed == Series(GtInt(sma_f, sma_s))
        signal == Series(FillNa(Shift(crossed, 1), Zero))
        rets == Series(FillNa(PctChange(px_close, TRUE), Zero))
        strat_rets == Series(SeriesMul(rets, signal))
    IN  [signal |-> signal, rets |-> rets, strat_rets |-> strat_rets,
         strat_equity |-> CumProd1(strat_rets), bh_equity |-> CumProd1(rets)]

\* lines 201-224: the body of Run Backtest on a non-empty frame
BacktestBody(data, f, s) ==
    LET px_close == DropNa(data)
        b == BacktestSeries(px_close, f, s)
        metrics == << CAGR(b.strat_equity, periods_per_year),
                      max_drawdown(b.strat_equity),
                      sharpe(b.strat_rets, Zero, periods_per_year),
                      CAGR(b.bh_equity, periods_per_year),
                      max_drawdown(b.bh_equity),
                      sharpe(b.rets, Zero, periods_per_year) >>
        raised == \E i \in 1..6 : metrics[i].k = "raise"
    IN  IF raised
        THEN [HistIdle EXCEPT !.tab = "backtest", !.status = "raised", !.fetched = TRUE,
                              !.px_close = px_close]
        ELSE [HistIdle EXCEPT !.tab = "backtest", !.status = "ok", !.fetched = TRUE,
                              !.px_close = px_close, !.signal = b.signal,
                              !.rets = b.rets, !.strat_rets = b.strat_rets,
                              !.strat_equity = b.strat_equity,
                              !.bh_equity = b.bh_equity, !.metrics = metrics]

\* The Run Backtest button, lines 193-231.
RunBacktest ==
    /\ \/ /\ FastSlowInvalid(fast, slow)
          /\ hist_out' = [HistIdle EXCEPT !.tab = "backtest", !.status = "warn_order"]
       \/ /\ ~FastSlowInvalid(fast, slow)
          /\ hist_out' =
               IF market_hist = <<>>
               THEN [HistIdle EXCEPT !.tab = "backtest", !.status = "warn_nodata",
                                     !.fetched = TRUE]
               ELSE BacktestBody(market_hist, fast, slow)
    /\ UNCHANGED <<market_hist, fast, slow, level, allocVars, pfVars, statVars>>

\* The Compute VaR button, lines 283-291.
ComputeVaR ==
    /\ \E pad \in BOOLEAN :
         hist_out' =
           IF market_hist = <<>>
           THEN [HistIdle EXCEPT !.tab = "var", !.status = "warn_nodata", !.fetched = TRUE]
           ELSE LET rets == DropNa(PctChange(market_hist, pad))
                    v == var_historical(rets, level)
                IN  [HistIdle EXCEPT !.tab = "var", !.fetched = TRUE, !.rets = rets,
                                     !.v = v,
                                     !.status = IF v.k = "raise" THEN "raised" ELSE "ok"]
    /\ UNCHANGED <<market_hist, fast, slow, level, allocVars, pfVars, statVars>>

SetFast ==
    \E f \in FastChoices :
        /\ fast' = f
        /\ hist_out' = HistIdle
        /\ UNCHANGED <<market_hist, slow, level, allocVars, pfVars, statVars>>

SetSlow ==
    \E s \in SlowChoices :
        /\ slow' = s
        /\ hist_out' = HistIdle
        /\ UNCHANGED <<market_hist, fast, level, allocVars, pfVars, statVars>>

----------------------------------------------------------------------------
(* Tab 2: Portfolio (src/app.py 134-180).  The tab has no button: every    *)
(* run of the script renders it.  Shares are held in hundredths.           *)

MaxPositions == 2

PfPrices == {100, 200}
\* What the provider can answer for the tickers asked.
PfMarkets(tickers) ==
    [{tickers[i] : i \in 1..Len(tickers)} -> PfPrices \cup {NoPrice}]

\* line 142
sample_csv ==
    << [Ticker |-> "AAPL", Shares |-> 1000, CostBasis |-> 150],
       [Ticker |-> "MSFT", Shares |-> 500, CostBasis |-> 300],
       [Ticker |-> "GOOGL", Shares |-> 400, CostBasis |-> 120],
       [Ticker |-> "BTC-USD", Shares |-> 2, CostBasis |-> 40000],
       [Ticker |-> "NIFTYBEES.NS", Shares |-> 5000, CostBasis |-> 220] >>

UploadRows == [Ticker : {"AAPL", "MSFT"}, Shares : {100}, CostBasis : {0, 150}]
Uploads == UNION {[1..len -> UploadRows] : len \in 0..MaxPositions}

PfIdle == [status |-> "none", looked_up |-> FALSE, tickers |-> <<>>, prices |-> <<>>,
           rows |-> <<>>, total_mv |-> Zero, total_cost |-> Zero, total_pl |-> Zero,
           delta |-> Zero, positions |-> 0]

\* lines 141-148
LoadPortfolio(smp, has, up) ==
    IF smp /\ ~has THEN sample_csv
    ELSE IF has THEN up
    ELSE <<>>

\* What the call of line 152 can return (cached on the ticker list, as in Lookups).
PfLookups(tickers) ==
    IF pf_out.looked_up /\ pf_out.tickers = tickers THEN {pf_out.prices}
    ELSE {fetch_last_price(tickers, market) : market \in PfMarkets(tickers)}

\* lines 156-169: the valued table and its totals; sum() skips NaN
ValuePortfolio(pf, prices) ==
    LET df == Series([i \in 1..Len(pf) |->
                LET price == IF pf[i].Ticker \in DOMAIN prices
                             THEN Frac(prices[pf[i].Ticker], 1) ELSE NaN
                    mv == IF IsNaN(price) THEN NaN ELSE FMul(Frac(pf[i].Shares, 1), price)
                    cost == Frac(pf[i].Shares * pf[i].CostBasis, 1)
                    pl == IF IsNaN(mv) THEN NaN ELSE FSub(mv, cost)
                IN  [Ticker |-> pf[i].Ticker, Shares |-> pf[i].Shares,
                     CostBasis |-> pf[i].CostBasis, Price |-> price,
                     MarketValue |-> mv, Cost |-> cost, PL |-> pl,
                     ReturnPct |-> IF FLt(Zero, cost) /\ IsNum(pl)
                                   THEN FMul(Frac(100, 1), FMul(pl, Frac(cost.d, cost.n)))
                                   ELSE NaN]])
        total_mv == FSum(DropNa(Series([i \in 1..Len(df) |-> df[i].MarketValue])))
        total_cost == FSum(DropNa(Series([i \in 1..Len(df) |-> df[i].Cost])))
        total_pl == FSum(DropNa(Series([i \in 1..Len(df) |-> df[i].PL])))
    IN  [status |-> "table", looked_up |-> TRUE,
         tickers |-> [i \in 1..Len(pf) |-> pf[i].Ticker], prices |-> prices,
         rows |-> df,
         total_mv |-> total_mv, total_cost |-> total_cost, total_pl |-> total_pl,
         delta |-> IF FLt(Zero, total_cost)
                   THEN FMul(Frac(100, 1),
                             FSub(FMul(total_mv, Frac(total_cost.d, total_cost.n)), Unit))
                   ELSE Zero,
         positions |-> Len(df)]

\* lines 150-180 for one answer of the price lookup
PortfolioRun(pf, prices) ==
    IF DOMAIN prices = {}
    THEN [PfIdle EXCEPT !.status = "warn_prices", !.looked_up = TRUE,
                        !.tickers = [i \in 1..Len(pf) |-> pf[i].Ticker]]
    ELSE ValuePortfolio(pf, prices)

\* One run of the script with the widgets as given: lines 141-180.
RenderPortfolio(smp, has, up) ==
    LET pf == LoadPortfolio(smp, has, up)
    IN  IF pf = <<>>
        THEN pf_out' = [PfIdle EXCEPT !.status = IF has THEN "none" ELSE "info"]
        ELSE \E prices \in PfLookups([i \in 1..Len(pf) |-> pf[i].Ticker]) :
                pf_out' = PortfolioRun(pf, prices)

ToggleSample ==
    /\ sample' = ~sample
    /\ RenderPortfolio(sample', has_upload, uploaded)
    /\ UNCHANGED <<uploaded, has_upload, allocVars, histVars, statVars>>

Upload ==
    \E csv \in Uploads :
        /\ uploaded' = csv
        /\ has_upload' = TRUE
        /\ RenderPortfolio(sample, TRUE, csv)
        /\ UNCHANGED <<sample, allocVars, histVars, statVars>>

ClearUpload ==
    /\ has_upload
    /\ uploaded' = <<>>
    /\ has_upload' = FALSE
    /\ RenderPortfolio(sample, FALSE, <<>>)
    /\ UNCHANGED <<sample, allocVars, histVars, statVars>>

----------------------------------------------------------------------------
(* The helper functions applied to a series of their own.                  *)

MaxSeriesLen == 4

StatValues == {-1, 0, 1, 2, 3}
\* confidence levels of the slider of line 280, in percent
Levels == {80, 95, 99}
StatSeries == UNION {[1..len -> {Frac(x, 1) : x \in StatValues}] : len \in 0..MaxSeriesLen}

StatIdle == [fn |-> "none", lvl |-> 0, result |-> NaN]

\* An equity curve: positive values.
IsCurve(s) == \A i \in 1..Len(s) : s[i].n > 0

ApplyMaxDrawdown ==
    /\ IsCurve(series)
    /\ stat_out' = [fn |-> "max_drawdown", lvl |-> 0, result |-> max_drawdown(series)]
    /\ UNCHANGED <<series, allocVars, histVars, pfVars>>

ApplyCAGR ==
    /\ IsCurve(series)
    /\ stat_out' = [fn |-> "CAGR", lvl |-> 0, result |-> CAGR(series, periods_per_year)]
    /\ UNCHANGED <<series, allocVars, histVars, pfVars>>

ApplySharpe ==
    /\ stat_out' = [fn |-> "sharpe", lvl |-> 0,
                    result |-> sharpe(series, Zero, periods_per_year)]
    /\ UNCHANGED <<series, allocVars, histVars, pfVars>>

ApplyVaR ==
    \E l \in Levels :
        /\ stat_out' = [fn |-> "var_historical", lvl |-> l,
                        result |-> var_historical(series, l)]
        /\ UNCHANGED <<series, allocVars, histVars, pfVars>>

----------------------------------------------------------------------------
(* The page after its first run, and one specification per tab.            *)

InitAllocTab == etf_rows = default_etfs /\ budget = 10000 /\ alloc_out = AllocIdle
InitHistTab == fast = 20 /\ slow = 50 /\ level = 95 /\ hist_out = HistIdle
InitPfTab == sample = TRUE /\ uploaded = <<>> /\ has_upload = FALSE /\ pf_out = PfIdle
InitStatTab == stat_out = StatIdle

InitAlloc ==
    /\ InitAllocTab /\ InitHistTab /\ InitPfTab /\ InitStatTab
    /\ market_hist = <<>> /\ series = <<>>

InitHist ==
    /\ InitAllocTab /\ InitHistTab /\ InitPfTab /\ InitStatTab
    /\ market_hist \in Histories /\ series = <<>>

InitStat ==
    /\ InitAllocTab /\ InitHistTab /\ InitPfTab /\ InitStatTab
    /\ market_hist = <<>> /\ series \in StatSeries

NextAlloc == Allocate \/ EditWeight \/ AddRow \/ DeleteRow \/ SetBudget

SpecAlloc == InitAlloc /\ [][NextAlloc]_vars

\* The first run renders the sample portfolio.
InitPf ==
    /\ InitAllocTab /\ InitHistTab /\ InitStatTab
    /\ market_hist = <<>> /\ series = <<>>
    /\ sample = TRUE /\ uploaded = <<>> /\ has_upload = FALSE
    /\ pf_out \in
         LET tickers == [i \in 1..Len(sample_csv) |-> sample_csv[i].Ticker]
         IN  {PortfolioRun(sample_csv, fetch_last_price(tickers, market)) :
                market \in PfMarkets(tickers)}

NextPf == ToggleSample \/ Upload \/ ClearUpload

SpecPf == InitPf /\ [][NextPf]_vars

NextHist == RunBacktest \/ ComputeVaR \/ SetFast \/ SetSlow

SpecHist == InitHist /\ [][NextHist]_vars

NextStat == ApplyMaxDrawdown \/ ApplyCAGR \/ ApplySharpe \/ ApplyVaR

SpecStat == InitStat /\ [][NextStat]_vars

----------------------------------------------------------------------------
(* Properties of the ETF Allocator, checked under SpecAlloc.               *)

WeightSum == SumSeq([i \in 1..Len(etf_rows) |-> etf_rows[i].TargetWeight])
RequestedTickers == {etf_rows[i].Ticker : i \in 1..Len(etf_rows)}

\* C1: when the weights are each in [0,1] and sum to 1, the budget is >= 0 and
\* every requested ticker has a price, Allocate produces a plan in which no row
\* invests more than its target amount and 0 <= cash remaining <= budget.
C1_NeverOverInvests ==
    ( /\ alloc_out.looked_up
      /\ RequestedTickers \subseteq DOMAIN alloc_out.prices
      /\ WeightSum = One
      /\ \A i \in 1..Len(etf_rows) : etf_rows[i].TargetWeight \in 0..One
      /\ budget >= 0 )
    => /\ alloc_out.status = "plan"
       /\ Len(alloc_out.plan) = Len(etf_rows)
       /\ \A i \in 1..Len(alloc_out.plan) :
            FLe(Frac(alloc_out.plan[i].InvestAmt, 1), alloc_out.plan[i].TargetAmt)
       /\ alloc_out.cash_left[1] >= 0
       /\ alloc_out.cash_left[1] <= budget

\* A plan for weights summing to 1 in which flooring leaves part of a row's target
\* amount, and so some cash, uninvested, while another row's target is met exactly.
C1_Witness ==
    /\ alloc_out.status = "plan"
    /\ WeightSum = One
    /\ \E i \in 1..Len(alloc_out.plan) :
         FLt(Frac(alloc_out.plan[i].InvestAmt, 1), alloc_out.plan[i].TargetAmt)
    /\ \E i \in 1..Len(alloc_out.plan) :
         /\ alloc_out.plan[i].Shares > 0
         /\ Frac(alloc_out.plan[i].InvestAmt, 1) = alloc_out.plan[i].TargetAmt
    /\ alloc_out.cash_left[1] > 0
    /\ alloc_out.cash_left[1] < budget

\* C2: when the price lookup fails for some but not all requested tickers, Allocate
\* still produces a plan: the rows without a price are shown as missing-price rows
\* and every row with a price has its normal shares and invested amount.
C2_MissingPriceIsNotFatal ==
    ( /\ alloc_out.looked_up
      /\ DOMAIN alloc_out.prices # {}
      /\ ~(RequestedTickers \subseteq DOMAIN alloc_out.prices) )
    => /\ alloc_out.status = "plan"
       /\ Len(alloc_out.plan) = Len(etf_rows)
       /\ \A i \in 1..Len(alloc_out.plan) :
            IF etf_rows[i].Ticker \in DOMAIN alloc_out.prices
            THEN LET p == alloc_out.prices[etf_rows[i].Ticker]
                     sh == alloc_out.plan[i].Shares
                 IN  /\ alloc_out.plan[i].Price = p
                     /\ FLe(Frac(sh * p, 1), alloc_out.plan[i].TargetAmt)
                     /\ FLt(alloc_out.plan[i].TargetAmt, Frac((sh + 1) * p, 1))
                     /\ alloc_out.plan[i].InvestAmt = sh * p
            ELSE alloc_out.plan[i].Price = NoPrice

\* C3: Allocate warns exactly when the weights' sum is further than 1e-6 from 1.0,
\* and then does nothing else: no price lookup, no plan table, no cash figure.
C3_WeightValidation ==
    alloc_out.status # "idle"
    => /\ (alloc_out.status = "warn_weights")
             <=> (WeightSum > One + Tol \/ WeightSum < One - Tol)
       /\ alloc_out.status = "warn_weights"
             => /\ ~alloc_out.looked_up
                /\ DOMAIN alloc_out.prices = {}
                /\ alloc_out.plan = <<>>
                /\ alloc_out.cash_left = <<>>

\* Allocate has warned about weights 0.6 and 0.3 (sum 0.9).
C3_Witness ==
    /\ alloc_out.status = "warn_weights"
    /\ Len(etf_rows) = 2
    /\ WeightSum = 9000000

\* C8: in every plan, each row has targetAmount = weight x budget, shares =
\* floor(targetAmount / price) and investedAmount = shares x price, and the cash
\* remaining is the budget minus the invested amounts; the default request with
\* budget 10000 and prices VTI 200, VXUS 55, BND 75 gives 30, 54 and 13 shares
\* and 55 of cash.
C8_PlanArithmetic ==
    alloc_out.status = "plan"
    => /\ Len(alloc_out.plan) = Len(etf_rows)
       /\ \A i \in 1..Len(alloc_out.plan) :
            LET row == alloc_out.plan[i]
                p == alloc_out.prices[etf_rows[i].Ticker]
            IN  /\ row.Ticker = etf_rows[i].Ticker
                /\ row.Price = p
                /\ row.TargetAmt
                     = FMul(Frac(etf_rows[i].TargetWeight, One), Frac(budget, 1))
                /\ FLe(Frac(row.Shares * p, 1), row.TargetAmt)
                /\ FLt(row.TargetAmt, Frac((row.Shares + 1) * p, 1))
                /\ row.InvestAmt = row.Shares * p
       /\ alloc_out.cash_left
            = << budget - SumSeq([i \in 1..Len(alloc_out.plan) |->
                                    alloc_out.plan[i].InvestAmt]) >>
       /\ ( /\ etf_rows = default_etfs
            /\ budget = 10000
            /\ alloc_out.prices = [t \in Tickers |->
                  CASE t = "VTI" -> 200 [] t = "VXUS" -> 55 [] OTHER -> 75] )
          => /\ [i \in 1..3 |-> alloc_out.plan[i].Shares] = <<30, 54, 13>>
             /\ alloc_out.cash_left = <<55>>

\* The plan of the default request at budget 10000 and prices 200, 55, 75.
C8_Witness ==
    /\ alloc_out.status = "plan"
    /\ etf_rows = default_etfs
    /\ budget = 10000
    /\ alloc_out.prices["VTI"] = 200
    /\ alloc_out.prices["VXUS"] = 55
    /\ alloc_out.prices["BND"] = 75
    /\ alloc_out.cash_left = <<55>>

----------------------------------------------------------------------------
(* Properties of Run Backtest and Compute VaR, checked under SpecHist.     *)

\* C4: Run Backtest warns exactly when fast >= slow, and then does nothing else:
\* the history is not fetched and no signal, equity curve or metric is computed;
\* the body runs only when fast < slow.
C4_WindowValidation ==
    hist_out.tab = "backtest"
    => /\ (hist_out.status = "warn_order") <=> (fast >= slow)
       /\ hist_out.status = "warn_order"
             => /\ ~hist_out.fetched
                /\ hist_out.px_close = <<>>
                /\ hist_out.signal = <<>>
                /\ hist_out.strat_rets = <<>>
                /\ hist_out.strat_equity = <<>>
                /\ hist_out.bh_equity = <<>>
                /\ hist_out.metrics = <<>>
       /\ hist_out.fetched => fast < slow

\* Run Backtest has warned for fast = slow.
C4_Witness ==
    /\ hist_out.tab = "backtest"
    /\ hist_out.status = "warn_order"
    /\ fast = slow

\* The closes of px from index lo to hi, summed.
CloseSum(px, lo, hi) == SumSeq([j \in 1..(hi - lo + 1) |-> px[lo + j - 1].n])

\* signal(i): both averages are defined at i and the fast one is above the slow one
\* (mean over f closes > mean over s closes, cross-multiplied).
CrossSignal(px, f, s, i) ==
    IF i >= f /\ i >= s /\ s * CloseSum(px, i - f + 1, i) > f * CloseSum(px, i - s + 1, i)
    THEN 1 ELSE 0

\* The raw return of period t.
RawReturn(px, t) == IF t = 1 THEN Zero ELSE Frac(px[t].n - px[t - 1].n, px[t - 1].n)

\* C5: no look-ahead.  The strategy return of period t is signal(t-1) times the raw
\* return of t, with a flat position at the first period and wherever the previous
\* period has no defined signal; for closes 100,102,101,105,108 and windows 2 and 3
\* the signal of index 2 scales the return of index 3, not that of index 2.
C5_NoLookAhead ==
    /\ (hist_out.tab = "backtest" /\ hist_out.status = "ok")
       => /\ Len(hist_out.strat_rets) = Len(hist_out.px_close)
          /\ \A t \in 1..Len(hist_out.px_close) :
               hist_out.strat_rets[t] =
                   IF t > 1 /\ CrossSignal(hist_out.px_close, fast, slow, t - 1) = 1
                   THEN RawReturn(hist_out.px_close, t)
                   ELSE Zero
    /\ LET px == <<Frac(100, 1), Frac(102, 1), Frac(101, 1), Frac(105, 1), Frac(108, 1)>>
           b == BacktestSeries(px, 2, 3)
       IN  /\ CrossSignal(px, 2, 3, 2) = 0
           /\ CrossSignal(px, 2, 3, 3) = 1
           /\ b.rets[3] = Frac(-1, 102)
           /\ b.strat_rets[3] = Zero
           /\ b.strat_rets[4] = Frac(4, 101)
           /\ b.strat_rets[5] = Frac(3, 105)

\* A backtest of six closes whose signal turns on at the fifth: the fifth return is
\* not taken (the position is still flat), the sixth is.
C5_Witness ==
    /\ hist_out.tab = "backtest"
    /\ hist_out.status = "ok"
    /\ Len(hist_out.px_close) = 6
    /\ CrossSignal(hist_out.px_close, fast, slow, 4) = 0
    /\ CrossSignal(hist_out.px_close, fast, slow, 5) = 1
    /\ hist_out.rets[5] # Zero
    /\ hist_out.strat_rets[5] = Zero
    /\ hist_out.strat_rets[6] # Zero

IsMetric(x) == x.k \in {"num", "cagr", "ratio", "nan"}

\* C9: no raise on data shape.  Run Backtest with fast < slow completes on every
\* non-empty history (closes all missing, one observation, fewer than slow) with six
\* metrics that are numbers or NaN; max_drawdown, CAGR and sharpe give NaN on the
\* empty series, and so does var_historical in Compute VaR.
C9_NoRaiseOnShape ==
    /\ hist_out.status # "raised"
    /\ (hist_out.tab = "backtest" /\ hist_out.fetched /\ market_hist # <<>>)
       => /\ hist_out.status = "ok"
          /\ Len(hist_out.metrics) = 6
          /\ \A i \in 1..6 : IsMetric(hist_out.metrics[i])
          /\ hist_out.px_close = <<>>
                => \A i \in 1..6 : IsNaN(hist_out.metrics[i])
    /\ (hist_out.tab = "var" /\ market_hist # <<>>)
       => /\ hist_out.status = "ok"
          /\ hist_out.v.k \in {"num", "nan"}
          /\ hist_out.rets = <<>> => IsNaN(hist_out.v)

\* Run Backtest has completed on a history whose closes are all missing.
C9_Witness ==
    /\ hist_out.tab = "backtest"
    /\ hist_out.status = "ok"
    /\ Len(market_hist) >= 2
    /\ hist_out.px_close = <<>>
    /\ \A i \in 1..6 : IsNaN(hist_out.metrics[i])

----------------------------------------------------------------------------
(* Properties of the helper functions, checked under SpecStat.             *)

NonDecreasing(s) == \A i \in 2..Len(s) : s[i - 1].n <= s[i].n

\* The highest value of the curve up to index i.
PeakUpTo(s, i) == CHOOSE m \in {s[j].n : j \in 1..i} : \A j \in 1..i : s[j].n <= m

\* The drawdown at index i: curve[i] / max(curve[0..i]) - 1.
DrawdownAt(s, i) == Frac(s[i].n - PeakUpTo(s, i), PeakUpTo(s, i))

\* C6: on a non-empty curve of positive values max_drawdown is <= 0, is 0 exactly
\* when the curve is non-decreasing, and otherwise is the strictly negative minimum
\* over i of curve[i] / max(curve[0..i]) - 1.
C6_MaxDrawdown ==
    (stat_out.fn = "max_drawdown" /\ series # <<>>)
    => /\ IsNum(stat_out.result)
       /\ FLe(stat_out.result, Zero)
       /\ (stat_out.result = Zero) <=> NonDecreasing(series)
       /\ \A i \in 1..Len(series) : FLe(stat_out.result, DrawdownAt(series, i))
       /\ \E i \in 1..Len(series) : stat_out.result = DrawdownAt(series, i)

\* max_drawdown of a curve that recovers after a fall: the result is negative.
C6_Witness ==
    /\ stat_out.fn = "max_drawdown"
    /\ Len(series) >= 3
    /\ ~NonDecreasing(series)
    /\ series[Len(series)].n > series[1].n
    /\ FLt(stat_out.result, Zero)

AllEqual(s) == \A i, j \in 1..Len(s) : s[i] = s[j]

\* The sample standard deviation (ddof=1) is defined and is 0.
StdIsZero(s) == Len(s) >= 2 /\ AllEqual(s)

SharpeDefined ==
    LET n == Len(series)
        total == SumSeq([i \in 1..n |-> series[i].n])
        ss == SumSeq([i \in 1..n |-> (n * series[i].n - total) * (n * series[i].n - total)])
    IN  /\ stat_out.result.k = "ratio"
        /\ stat_out.result.mu = Frac(periods_per_year * total, n)
        /\ stat_out.result.sigma2 = Frac(periods_per_year * ss, n * n * (n - 1))
        /\ FLt(Zero, stat_out.result.sigma2)

\* C7 as stated: sharpe is undefined iff the series is empty or the sample standard
\* deviation (ddof=1) of the excess returns is 0.
C7_UndefinedIffEmptyOrZeroStd ==
    stat_out.fn = "sharpe"
    => (IsNaN(stat_out.result) <=> (series = <<>> \/ StdIsZero(series)))

\* C7 amended: sharpe is undefined iff the series has fewer than two observations
\* (empty, or one observation, whose ddof=1 standard deviation is itself undefined)
\* or the sample standard deviation of the excess returns is 0; otherwise it is the
\* annualized mean over the annualized standard deviation.
C7_UndefinedIffNoSpread ==
    stat_out.fn = "sharpe"
    => /\ IsNaN(stat_out.result) <=> (Len(series) < 2 \/ StdIsZero(series))
       /\ ~IsNaN(stat_out.result) => SharpeDefined

\* sharpe of a single return: undefined, though the series is not empty and its
\* standard deviation is not 0.
C7_Witness ==
    /\ stat_out.fn = "sharpe"
    /\ Len(series) = 1
    /\ IsNaN(stat_out.result)

----------------------------------------------------------------------------
(* Property of the Portfolio tab, checked under SpecPf.                    *)

\* C10: the displayed Total P/L is the displayed Market Value minus the total Cost
\* that the percentage delta uses: the three totals cover the same rows.
C10_TotalsConsistent ==
    pf_out.status = "table"
    => pf_out.total_pl = FSub(pf_out.total_mv, pf_out.total_cost)

====
